---- MODULE Spec2Model ----
(***************************************************************************)
(* INQUIRO PDF (src/app.py): the per-session state of the Streamlit app,   *)
(* process_uploaded_files (ingest), get_rag_response (query) and the       *)
(* parts of main() that call them, together with the services they touch:  *)
(* the Qdrant collections, the wall clock that names a collection, and the *)
(* directory of temporary files.                                           *)
(*                                                                         *)
(* Every session runs the same script in its own thread; a step of the     *)
(* model is the code between two calls to a shared service.                *)
(***************************************************************************)
EXTENDS Integers, Sequences, FiniteSets, TLC

\* ---------------------------------------------------------------- bounds
MaxFiles == 2      \* files in one uploaded batch
MaxTime  == 1      \* seconds the clock may advance
MaxLeaks == 1      \* temporary files that may be left behind
MaxChat  == 2      \* turns kept in chat_history

\* -------------------------------------------------------------- universe
Sessions == {1, 2}          \* browser sessions of the one server process
Solo     == {1}             \* the session of the single-session specification

\* An uploaded file: whether PyPDFLoader can parse it, and the pages it
\* yields. Three files stand for all: one that loader.load() rejects, a
\* scanned PDF without extractable pages, and a PDF of one page.
Corrupt == [parses |-> FALSE, pages |-> 0]
Blank   == [parses |-> TRUE, pages |-> 0]
OnePage == [parses |-> TRUE, pages |-> 1]
Files   == {Corrupt, Blank, OnePage}
Batches == UNION {[1..n -> Files] : n \in 1..MaxFiles}
\* The batch the two-session specification uploads: two one-page PDFs.
ConcBatches == {<<OnePage, OnePage>>}

\* A text unit (one page) is <<session, file, page>>; the collection name
\* RAG_PDF_<t> is modelled by t.
\* None, and the Qdrant vector store bound to collection n.
NoHandle == <<>>
Handle(n) == <<n>>
Queries == {"q"}
Responses == {"", "answer"}

VARIABLES
  vector_store,      \* st.session_state.vector_store, per session
  documents_loaded,  \* st.session_state.documents_loaded, per session
  chat_history,      \* st.session_state.chat_history, per session
  pc,                \* where the session's script run stands
  uploaded_files,    \* the batch of the run in progress
  text,              \* process_uploaded_files: text
  reported,          \* per-file "Error processing" messages of the run
  processed,         \* files whose loop body ran to its end
  collection_name,   \* process_uploaded_files: collection_name
  inserted,          \* units from_documents has upserted so far
  ret,               \* the value process_uploaded_files returned
  collections,       \* the Qdrant service: name -> set of entries, for the
                     \* names the program can still produce or holds
  clock,             \* int(time.time())
  tmp_files          \* temporary .pdf files existing on disk

session == <<vector_store, documents_loaded, chat_history>>
locals  == <<uploaded_files, text, reported, processed, collection_name, inserted, ret>>
shared  == <<collections, clock, tmp_files>>
vars    == <<vector_store, documents_loaded, chat_history, pc, uploaded_files, text,
             reported, processed, collection_name, inserted, ret, collections,
             clock, tmp_files>>

\* ------------------------------------------------------- Document loading
\* loader.load() of file i of batch b: its pages as text units, in order.
PagesOf(s, b, i) == [p \in 1..b[i].pages |-> <<s, i, p>>]

\* text after the loop body ran for the first n files (text.extend(pages)).
RECURSIVE LoadedText(_, _, _)
LoadedText(s, b, n) ==
  IF n = 0 THEN <<>>
  ELSE LoadedText(s, b, n - 1) \o (IF b[n].parses THEN PagesOf(s, b, n) ELSE <<>>)

\* st.error("Error processing ...") calls among the first n files.
ReportedErrors(b, n) == Cardinality({i \in 1..n : ~b[i].parses})

UnitSet(seq, from, to) == {seq[j] : j \in from..to}

\* The locals of a script run that is not executing process_uploaded_files.
ResetLocals(s) ==
  /\ uploaded_files' = [uploaded_files EXCEPT ![s] = <<>>]
  /\ text' = [text EXCEPT ![s] = <<>>]
  /\ reported' = [reported EXCEPT ![s] = 0]
  /\ processed' = [processed EXCEPT ![s] = 0]
  /\ collection_name' = [collection_name EXCEPT ![s] = 0]
  /\ inserted' = [inserted EXCEPT ![s] = 0]
  /\ ret' = [ret EXCEPT ![s] = NoHandle]

\* Line 163 names a collection after the current second, and the clock
\* never goes back: a collection of an earlier second can be named again
\* only through a vector store or a run that holds its name.
Held(n, vs, p, cn, r) ==
  \E s \in Sessions :
     \/ vs[s] = Handle(n)
     \/ p[s] \in {"delete", "create", "populate"} /\ cn[s] = n
     \/ p[s] = "returned" /\ r[s] = Handle(n)

\* The collections of c that can still be named at second clk.
Nameable(c, clk, vs, p, cn, r) ==
  [n \in {m \in DOMAIN c : m >= clk \/ Held(m, vs, p, cn, r)} |-> c[n]]

Init ==
  /\ vector_store = [s \in Sessions |-> NoHandle]
  /\ documents_loaded = [s \in Sessions |-> FALSE]
  /\ chat_history = [s \in Sessions |-> <<>>]
  /\ pc = [s \in Sessions |-> "idle"]
  /\ uploaded_files = [s \in Sessions |-> <<>>]
  /\ text = [s \in Sessions |-> <<>>]
  /\ reported = [s \in Sessions |-> 0]
  /\ processed = [s \in Sessions |-> 0]
  /\ collection_name = [s \in Sessions |-> 0]
  /\ inserted = [s \in Sessions |-> 0]
  /\ ret = [s \in Sessions |-> NoHandle]
  /\ collections = <<>>
  /\ clock = 0
  /\ tmp_files = 0

\* ------------------------------------------------ process_uploaded_files
\* Returning v from process_uploaded_files.
Return(s, v) ==
  /\ pc' = [pc EXCEPT ![s] = "returned"]
  /\ ret' = [ret EXCEPT ![s] = v]

\* Mutant of NoText: the empty check is missing.
NoTextUnchecked(t) == FALSE

\* "if not text": nothing was extracted, so the run returns None.
NoText(t) == t = <<>>

\* Lines 139-152 for files 1..k-1, then the staging of file k raises
\* (uploaded_file.read() or tmp_file.write()): the temporary file exists,
\* delete=False keeps it, and no handler is in scope.
StageFault(s, b, k) ==
  /\ pc[s] = "idle"
  /\ tmp_files < MaxLeaks
  /\ uploaded_files' = [uploaded_files EXCEPT ![s] = b]
  /\ text' = [text EXCEPT ![s] = LoadedText(s, b, k - 1)]
  /\ reported' = [reported EXCEPT ![s] = ReportedErrors(b, k - 1)]
  /\ processed' = [processed EXCEPT ![s] = k - 1]
  /\ tmp_files' = tmp_files + 1
  /\ pc' = [pc EXCEPT ![s] = "uncaught"]
  /\ UNCHANGED <<session, collection_name, inserted, ret, collections, clock>>

\* Lines 139-152 for files 1..k-1, then file k is staged and loaded (or its
\* parse error reported) and os.unlink in the finally clause raises.
UnlinkFault(s, b, k) ==
  /\ pc[s] = "idle"
  /\ tmp_files < MaxLeaks
  /\ uploaded_files' = [uploaded_files EXCEPT ![s] = b]
  /\ text' = [text EXCEPT ![s] = LoadedText(s, b, k)]
  /\ reported' = [reported EXCEPT ![s] = ReportedErrors(b, k)]
  /\ processed' = [processed EXCEPT ![s] = k - 1]
  /\ tmp_files' = tmp_files + 1
  /\ pc' = [pc EXCEPT ![s] = "uncaught"]
  /\ UNCHANGED <<session, collection_name, inserted, ret, collections, clock>>

\* Lines 134-163 with no fault in the loop: every file is staged, loaded and
\* unlinked; then the empty check, initialize_components and the name.
LoadFiles(s, b, initOk) ==
  /\ pc[s] = "idle"
  /\ uploaded_files' = [uploaded_files EXCEPT ![s] = b]
  /\ text' = [text EXCEPT ![s] = LoadedText(s, b, Len(b))]
  /\ reported' = [reported EXCEPT ![s] = ReportedErrors(b, Len(b))]
  /\ processed' = [processed EXCEPT ![s] = Len(b)]
  /\ IF NoText(LoadedText(s, b, Len(b))) \/ ~initOk
       THEN /\ Return(s, NoHandle)
            /\ UNCHANGED collection_name
       ELSE /\ collection_name' = [collection_name EXCEPT ![s] = clock]
            /\ pc' = [pc EXCEPT ![s] = "delete"]
            /\ UNCHANGED ret
  /\ UNCHANGED <<session, inserted, shared>>

\* Lines 164-167: delete_collection, any failure swallowed.
DeleteStale(s, ok) ==
  /\ pc[s] = "delete"
  /\ collections' = IF ok
       THEN [n \in DOMAIN collections \ {collection_name[s]} |-> collections[n]]
       ELSE collections
  /\ pc' = [pc EXCEPT ![s] = "create"]
  /\ UNCHANGED <<session, locals, clock, tmp_files>>

\* Lines 169-172: create_collection succeeds on a free name.
CreateCollection(s) ==
  /\ pc[s] = "create"
  /\ collection_name[s] \notin DOMAIN collections
  /\ collections' = [n \in DOMAIN collections \cup {collection_name[s]} |->
                       IF n = collection_name[s] THEN {} ELSE collections[n]]
  /\ pc' = [pc EXCEPT ![s] = "populate"]
  /\ UNCHANGED <<session, locals, clock, tmp_files>>

\* Lines 169-172 and 185-187: create_collection raises (the name exists, or
\* the service fails); the handler returns None.
CreateCollectionFail(s) ==
  /\ pc[s] = "create"
  /\ Return(s, NoHandle)
  /\ UNCHANGED <<session, uploaded_files, text, reported, processed, collection_name,
                 inserted, shared>>

\* Lines 174-183: Qdrant.from_documents upserts the next k units into the
\* collection of that name (creating it when it is missing at the start);
\* after the last unit the vector store is returned.
FromDocuments(s, k) ==
  /\ pc[s] = "populate"
  /\ k \in 1..(Len(text[s]) - inserted[s])
  /\ collection_name[s] \in DOMAIN collections \/ inserted[s] = 0
  /\ collections' = [n \in DOMAIN collections \cup {collection_name[s]} |->
        IF n = collection_name[s]
          THEN (IF n \in DOMAIN collections THEN collections[n] ELSE {})
               \cup UnitSet(text[s], inserted[s] + 1, inserted[s] + k)
          ELSE collections[n]]
  /\ inserted' = [inserted EXCEPT ![s] = inserted[s] + k]
  /\ IF inserted[s] + k = Len(text[s])
       THEN Return(s, Handle(collection_name[s]))
       ELSE UNCHANGED <<pc, ret>>
  /\ UNCHANGED <<session, uploaded_files, text, reported, processed, collection_name,
                 clock, tmp_files>>

\* Lines 174-180 and 185-187: from_documents raises (embedding or service
\* failure, or nothing to embed); what it upserted stays in the collection.
FromDocumentsFail(s) ==
  /\ pc[s] = "populate"
  /\ Return(s, NoHandle)
  /\ UNCHANGED <<session, uploaded_files, text, reported, processed, collection_name,
                 inserted, shared>>

\* ------------------------------------------------------------------ main
\* Mutant of StoreResult: the result is stored without "if vector_store:".
StoreResultUnconditional(s) ==
  /\ pc[s] = "returned"
  /\ vector_store' = [vector_store EXCEPT ![s] = ret[s]]
  /\ documents_loaded' = [documents_loaded EXCEPT ![s] = ret[s] # NoHandle]
  /\ pc' = [pc EXCEPT ![s] = "idle"]
  /\ ResetLocals(s)
  /\ collections' = Nameable(collections, clock, vector_store', pc', collection_name', ret')
  /\ UNCHANGED <<chat_history, clock, tmp_files>>

\* Lines 225-228: the session takes the returned vector store, if any.
StoreResult(s) ==
  /\ pc[s] = "returned"
  /\ IF ret[s] # NoHandle
       THEN /\ vector_store' = [vector_store EXCEPT ![s] = ret[s]]
            /\ documents_loaded' = [documents_loaded EXCEPT ![s] = TRUE]
       ELSE UNCHANGED <<vector_store, documents_loaded>>
  /\ pc' = [pc EXCEPT ![s] = "idle"]
  /\ ResetLocals(s)
  /\ collections' = Nameable(collections, clock, vector_store', pc', collection_name', ret')
  /\ UNCHANGED <<chat_history, clock, tmp_files>>

\* An exception left process_uploaded_files: the script run is over and
\* session_state is as it was.
ScriptAborted(s) ==
  /\ pc[s] = "uncaught"
  /\ pc' = [pc EXCEPT ![s] = "idle"]
  /\ ResetLocals(s)
  /\ UNCHANGED <<session, shared>>

\* Mutant of ClearChat: the button also drops the vector store.
ClearChatAndStore(s) ==
  /\ pc[s] = "idle"
  /\ chat_history' = [chat_history EXCEPT ![s] = <<>>]
  /\ vector_store' = [vector_store EXCEPT ![s] = NoHandle]
  /\ UNCHANGED <<documents_loaded, pc, locals, shared>>

\* Lines 235-237: Clear Chat History.
ClearChat(s) ==
  /\ pc[s] = "idle"
  /\ chat_history' = [chat_history EXCEPT ![s] = <<>>]
  /\ UNCHANGED <<vector_store, documents_loaded, pc, locals, shared>>

\* Mutant of Ask: the user turn is appended before the form and the
\* vector store are checked.
AskAppendsFirst(s, q) ==
  /\ pc[s] = "idle"
  /\ Len(chat_history[s]) + 2 <= MaxChat
  /\ chat_history' = [chat_history EXCEPT ![s] = Append(@, <<"user", q>>)]
  /\ pc' = [pc EXCEPT ![s] =
        IF documents_loaded[s]
          THEN (IF vector_store[s] # NoHandle THEN "rag" ELSE "no_store")
          ELSE "no_form"]
  /\ UNCHANGED <<vector_store, documents_loaded, locals, shared>>

\* Lines 255-275: the user wants to ask q. The question form exists only
\* when documents_loaded; with a vector store the user turn is appended and
\* get_rag_response is called.
Ask(s, q) ==
  /\ pc[s] = "idle"
  /\ IF documents_loaded[s]
       THEN IF vector_store[s] # NoHandle
              THEN /\ Len(chat_history[s]) + 2 <= MaxChat
                   /\ chat_history' = [chat_history EXCEPT ![s] = Append(@, <<"user", q>>)]
                   /\ pc' = [pc EXCEPT ![s] = "rag"]
              ELSE /\ pc' = [pc EXCEPT ![s] = "no_store"]
                   /\ UNCHANGED chat_history
       ELSE /\ pc' = [pc EXCEPT ![s] = "no_form"]
            /\ UNCHANGED chat_history
  /\ UNCHANGED <<vector_store, documents_loaded, locals, shared>>

\* Lines 191-204 and 270-272: the chain retrieves from the collection the
\* vector store names and the model answers r.
RagResponse(s, r) ==
  /\ pc[s] = "rag"
  /\ vector_store[s][1] \in DOMAIN collections
  /\ chat_history' = [chat_history EXCEPT ![s] =
        IF r # "" THEN Append(@, <<"assistant", r>>) ELSE @]
  /\ pc' = [pc EXCEPT ![s] = "idle"]
  /\ UNCHANGED <<vector_store, documents_loaded, locals, shared>>

\* Mutant of RagFail: a failed query drops the session's vector store.
RagFailInvalidates(s) ==
  /\ pc[s] = "rag"
  /\ pc' = [pc EXCEPT ![s] = "rag_failed"]
  /\ vector_store' = [vector_store EXCEPT ![s] = NoHandle]
  /\ documents_loaded' = [documents_loaded EXCEPT ![s] = FALSE]
  /\ UNCHANGED <<chat_history, locals, shared>>

\* Lines 206-208: any exception in get_rag_response gives (None, []).
RagFail(s) ==
  /\ pc[s] = "rag"
  /\ pc' = [pc EXCEPT ![s] = "rag_failed"]
  /\ UNCHANGED <<session, locals, shared>>

\* The script run ends after a refused or failed question.
QueryEnd(s) ==
  /\ pc[s] \in {"rag_failed", "no_store", "no_form"}
  /\ pc' = [pc EXCEPT ![s] = "idle"]
  /\ UNCHANGED <<session, locals, shared>>

\* time.time() passes a second boundary.
Tick ==
  /\ clock < MaxTime
  /\ clock' = clock + 1
  /\ collections' = Nameable(collections, clock + 1, vector_store, pc, collection_name, ret)
  /\ UNCHANGED <<session, pc, locals, tmp_files>>

\* ------------------------------------------------------- specifications
\* One session, every input.
Next ==
  \/ \E s \in Solo, b \in Batches, k \in 1..MaxFiles : k <= Len(b) /\ StageFault(s, b, k)
  \/ \E s \in Solo, b \in Batches, k \in 1..MaxFiles : k <= Len(b) /\ UnlinkFault(s, b, k)
  \/ \E s \in Solo, b \in Batches, initOk \in BOOLEAN : LoadFiles(s, b, initOk)
  \/ \E s \in Solo, ok \in BOOLEAN : DeleteStale(s, ok)
  \/ \E s \in Solo : CreateCollection(s)
  \/ \E s \in Solo : CreateCollectionFail(s)
  \/ \E s \in Solo, k \in 1..MaxFiles : FromDocuments(s, k)
  \/ \E s \in Solo : FromDocumentsFail(s)
  \/ \E s \in Solo : StoreResult(s)
  \/ \E s \in Solo : ScriptAborted(s)
  \/ \E s \in Solo : ClearChat(s)
  \/ \E s \in Solo, q \in Queries : Ask(s, q)
  \/ \E s \in Solo, r \in Responses : RagResponse(s, r)
  \/ \E s \in Solo : RagFail(s)
  \/ \E s \in Solo : QueryEnd(s)
  \/ Tick

Spec == Init /\ [][Next]_vars

\* Two sessions at once, each ingesting the two-page batch and asking.
NextConc ==
  \/ \E s \in Sessions, b \in ConcBatches : LoadFiles(s, b, TRUE)
  \/ \E s \in Sessions, ok \in BOOLEAN : DeleteStale(s, ok)
  \/ \E s \in Sessions : CreateCollection(s)
  \/ \E s \in Sessions : CreateCollectionFail(s)
  \/ \E s \in Sessions, k \in 1..MaxFiles : FromDocuments(s, k)
  \/ \E s \in Sessions : FromDocumentsFail(s)
  \/ \E s \in Sessions : StoreResult(s)
  \/ \E s \in Sessions, q \in Queries : Ask(s, q)
  \/ \E s \in Sessions, r \in Responses : RagResponse(s, r)
  \/ \E s \in Sessions : RagFail(s)
  \/ \E s \in Sessions : QueryEnd(s)
  \/ Tick

SpecConc == Init /\ [][NextConc]_vars

\* ================================================================ claims
IndexPcs == {"delete", "create", "populate"}

\* process_uploaded_files ended without a vector store: it returned None
\* or an exception left it.
IngestFailed(s) == pc[s] = "uncaught" \/ (pc[s] = "returned" /\ ret[s] = NoHandle)

\* The session has an active handle and offers the question form.
Ready(s) == vector_store[s] # NoHandle /\ documents_loaded[s]

\* The state of the session's state machine.
PhaseOf(p, dl) ==
  IF p \in IndexPcs \cup {"returned", "uncaught"} THEN "Ingesting"
  ELSE IF p \in {"rag", "rag_failed"} THEN "Querying"
  ELSE IF dl THEN "Ready" ELSE "Empty"

\* The collection named n in c, if there is one.
Index(c, n) == IF n \in DOMAIN c THEN {c[n]} ELSE {}

\* Some file of the batch parses and yields text.
YieldsText(b) == \E i \in 1..Len(b) : b[i].parses /\ b[i].pages > 0

C2_Claim ==
  \A s \in Sessions :
    (pc[s] \in IndexPcs \cup {"returned", "uncaught"} /\ YieldsText(uploaded_files[s]))
      => /\ processed[s] = Len(uploaded_files[s])
         /\ reported[s] = ReportedErrors(uploaded_files[s], Len(uploaded_files[s]))
         /\ (pc[s] = "returned" /\ ret[s] # NoHandle)
              => Index(collections, ret[s][1]) =
                   {UnitSet(LoadedText(s, uploaded_files[s], Len(uploaded_files[s])),
                            1, Len(text[s]))}

\* C3: a run that extracted no text never reaches the index steps and
\* returns None; a returned handle belongs to a run whose units, at least
\* one, were all inserted.
C3_NoTextNoIndex ==
  \A s \in Sessions :
    /\ pc[s] \in IndexPcs => text[s] # <<>>
    /\ (pc[s] = "returned" /\ ~YieldsText(uploaded_files[s])) => ret[s] = NoHandle
    /\ (pc[s] = "returned" /\ ret[s] # NoHandle)
         => (Len(text[s]) > 0 /\ inserted[s] = Len(text[s]))

\* Every file of the batch failed to parse and the run has returned None.
C3_Witness ==
  \E s \in Sessions :
    /\ pc[s] = "returned" /\ ret[s] = NoHandle
    /\ Len(uploaded_files[s]) = MaxFiles
    /\ \A i \in 1..Len(uploaded_files[s]) : ~uploaded_files[s][i].parses

\* C4 (as claimed): a failed ingest always ends in Empty, a failed query
\* in Ready.
C4_Original ==
  [][\A s \in Sessions :
       /\ (IngestFailed(s) /\ pc'[s] = "idle")
            => (PhaseOf(pc'[s], documents_loaded'[s]) = "Empty"
                /\ vector_store'[s] = NoHandle)
       /\ (pc[s] = "rag_failed" /\ pc'[s] = "idle")
            => PhaseOf(pc'[s], documents_loaded'[s]) = "Ready"]_vars

\* C4 (amended): the phases change only along Empty -> Ingesting,
\* Ready -> Ingesting, Ingesting -> Empty or Ready, Ready -> Querying,
\* Querying -> Ready; a failed ingest ends in the phase it started from
\* (Empty, or Ready with the same vector store), a failed query in Ready.
C4_FailureReturnsToStart ==
  [][\A s \in Sessions :
       /\ <<PhaseOf(pc[s], documents_loaded[s]), PhaseOf(pc'[s], documents_loaded'[s])>>
            \in {<<"Empty", "Empty">>, <<"Empty", "Ingesting">>,
                 <<"Ingesting", "Ingesting">>, <<"Ingesting", "Empty">>,
                 <<"Ingesting", "Ready">>, <<"Ready", "Ready">>,
                 <<"Ready", "Ingesting">>, <<"Ready", "Querying">>,
                 <<"Querying", "Querying">>, <<"Querying", "Ready">>}
       /\ (IngestFailed(s) /\ pc'[s] = "idle")
            => /\ PhaseOf(pc'[s], documents_loaded'[s]) =
                    (IF documents_loaded[s] THEN "Ready" ELSE "Empty")
               /\ vector_store'[s] = vector_store[s]
       /\ (pc[s] \in {"rag", "rag_failed"} /\ pc'[s] \in {"rag_failed", "idle"})
            => /\ documents_loaded'[s]
               /\ vector_store'[s] = vector_store[s]]_vars

\* A Ready session whose query has just failed.
C4_Witness == \E s \in Sessions : Ready(s) /\ pc[s] = "rag_failed"

\* C5 (as claimed): the index that a session's handle names keeps its
\* entries: no step of any run deletes it, replaces it or inserts into it.
C5_Claim ==
  [][\A s \in Sessions :
       (vector_store[s] # NoHandle /\ vector_store'[s] = vector_store[s])
         => Index(collections', vector_store[s][1])
              = Index(collections, vector_store[s][1])]_vars

\* C6 (as claimed): no session's active handle names an index that a run
\* is populating.
C6_Claim ==
  \A s, t \in Sessions :
    pc[t] = "populate" => vector_store[s] # Handle(collection_name[t])

\* C7 (as claimed): no temporary file is left behind.
C7_Claim == tmp_files = 0

\* C8 (as claimed): no exception leaves process_uploaded_files or
\* get_rag_response.
C8_Claim == \A s \in Sessions : pc[s] # "uncaught"

\* C9: asking without a vector store does not call get_rag_response and
\* changes neither the vector store, documents_loaded nor chat_history,
\* at the refusal and at the end of that script run.
C9_QueryWithoutHandleHasNoEffect ==
  [][\A s \in Sessions :
       /\ (pc[s] = "idle" /\ vector_store[s] = NoHandle
           /\ pc'[s] \in {"rag", "no_store", "no_form"})
            => /\ pc'[s] # "rag"
               /\ vector_store'[s] = vector_store[s]
               /\ documents_loaded'[s] = documents_loaded[s]
               /\ chat_history'[s] = chat_history[s]
       /\ (pc[s] \in {"no_store", "no_form"})
            => /\ vector_store'[s] = vector_store[s]
               /\ documents_loaded'[s] = documents_loaded[s]
               /\ chat_history'[s] = chat_history[s]]_vars

\* A question was refused in a session without a vector store.
C9_Witness == \E s \in Sessions : pc[s] = "no_form" /\ vector_store[s] = NoHandle

\* C10: documents_loaded is true exactly when vector_store holds a handle,
\* and the "Please process documents first!" branch is never taken.
C10_LoadedIffHandle ==
  \A s \in Sessions :
    /\ documents_loaded[s] <=> vector_store[s] # NoHandle
    /\ pc[s] # "no_store"

\* A session with documents loaded, a handle and a conversation.
C10_Witness ==
  \E s \in Sessions : documents_loaded[s] /\ vector_store[s] # NoHandle
                      /\ Len(chat_history[s]) = MaxChat
====
